---- MODULE Spec2Model ----
(***************************************************************************)
(* Model of kicad-model-sync-refactored.py: the reconciliation of the 3D   *)
(* model records of a KiCAD footprint (sync_models) and the batch pipeline *)
(* that applies it to every .kicad_mod file under a directory              *)
(* (find_footprint_files, process_footprint_file, main).                   *)
(*                                                                         *)
(* A path is a sequence of atoms: the two variable tokens, the directory   *)
(* separator and plain name components.  A Coordinate is an object on a    *)
(* heap; a Model record holds the addresses of its pos, scale and rotate   *)
(* objects, so that copying a vector and sharing it are different things.  *)
(***************************************************************************)
EXTENDS Integers, Sequences, FiniteSets, TLC

VARIABLES
    models,          \* footprint.models: the in-memory sequence of Model records
    heap,            \* the Coordinate objects, by address
    models0,         \* footprint.models as it was before the latest sync_models call
    heap0,           \* the heap as it was before the latest sync_models call
    ret,             \* the value the latest sync_models call returned
    out,             \* the lines the latest sync_models call printed
    calls,           \* how many times sync_models was called on the footprint
    disk,            \* the files under the directory tree: where, name suffix, content
    disk0,           \* the files as they were when the run started
    readable,        \* which directories os.scandir can read
    dry_run,         \* args.dry_run
    footprint_files, \* the list find_footprint_files returned
    idx,             \* position of main's loop in footprint_files
    modified_files,  \* main's counter
    log,             \* per processed file, the status line process_footprint_file printed
    exit_code,       \* the process's exit status once it ended
    pc               \* where main is: "start", "loop", "done" ("idle" when no run is modelled)

syncVars == <<models, heap, models0, heap0, ret, out, calls>>
runVars == <<disk, disk0, readable, dry_run, footprint_files, idx,
             modified_files, log, exit_code, pc>>
vars == <<models, heap, models0, heap0, ret, out, calls,
          disk, disk0, readable, dry_run, footprint_files, idx,
          modified_files, log, exit_code, pc>>

----------------------------------------------------------------------------
(* Bounds *)

MaxModels == 3
MaxCalls == 2
MaxFiles == 2

----------------------------------------------------------------------------
(* Paths *)

TP == "${KICAD_3RD_PARTY}"
PRJ == "${KIPRJMOD}"
SEP == "/"

\* `token in model.path`
Contains(token, path) == \E i \in 1..Len(path) : path[i] = token

\* the path taken whole as the file name
BasenameWhole(path) == path

\* os.path.basename: what follows the last separator, the whole path without one
Basename(path) ==
    LET seps == {i \in 1..Len(path) : path[i] = SEP}
        last == IF seps = {} THEN 0 ELSE CHOOSE i \in seps : \A j \in seps : j <= i
    IN SubSeq(path, last + 1, Len(path))

\* "${KIPRJMOD}/3d-models/" + model_filename
NewPath(path) == <<PRJ, SEP, "3d-models", SEP>> \o Basename(path)

----------------------------------------------------------------------------
(* Coordinates and documents *)

Vec(x, y, z) == [X |-> x, Y |-> y, Z |-> z]

\* a Model as the document stores it: vectors by value
DefaultAttrs ==
    [pos |-> Vec(0, 0, 0), scale |-> Vec(1, 1, 1), rotate |-> Vec(0, 0, 0),
     hide |-> FALSE, opacity |-> 10]

\* field values of the input records: any two of them differ in another set of
\* fields, from {pos} to {scale, rotate, hide, opacity}
SampleAttrs ==
    { DefaultAttrs,
      [DefaultAttrs EXCEPT !.pos = Vec(5, 2, 3)],
      [DefaultAttrs EXCEPT !.rotate = Vec(0, 0, 90), !.hide = TRUE],
      [DefaultAttrs EXCEPT !.scale = Vec(1, 2, 1), !.opacity = 5] }

SamplePaths ==
    { <<TP, SEP, "lib", SEP, "part.step">>,
      <<TP, "part.step">>,
      <<PRJ, SEP, "models", SEP, "part.wrl">>,
      <<PRJ, SEP, TP, SEP, "part.step">>,
      <<"${KISYS3DMOD}", SEP, "part.step">> }

DocModel(p, a) ==
    [path |-> p, pos |-> a.pos, scale |-> a.scale, rotate |-> a.rotate,
     hide |-> a.hide, opacity |-> a.opacity]

SampleDocModels == {DocModel(p, a) : p \in SamplePaths, a \in SampleAttrs}

\* Footprint().from_file: every vector of the document becomes a Coordinate of its own
from_file(doc) ==
    [models |-> [i \in 1..Len(doc) |->
                    [path |-> doc[i].path,
                     pos |-> 3 * i - 2, scale |-> 3 * i - 1, rotate |-> 3 * i,
                     hide |-> doc[i].hide, opacity |-> doc[i].opacity]],
     heap |-> [a \in 1..(3 * Len(doc)) |->
                    LET i == (a + 2) \div 3
                    IN CASE a % 3 = 1 -> doc[i].pos
                         [] a % 3 = 2 -> doc[i].scale
                         [] OTHER -> doc[i].rotate]]

\* footprint.to_file: the records by value
to_file(ms, h) ==
    [i \in 1..Len(ms) |->
        [path |-> ms[i].path,
         pos |-> h[ms[i].pos], scale |-> h[ms[i].scale], rotate |-> h[ms[i].rotate],
         hide |-> ms[i].hide, opacity |-> ms[i].opacity]]

----------------------------------------------------------------------------
(* sync_models *)

NoModel == 0

RECURSIVE ScanFrom(_, _, _, _)
\* the for loop of sync_models, from record i on
ScanFrom(ms, i, tp, pm) ==
    IF i > Len(ms) THEN [third_party_model |-> tp, project_model |-> pm]
    ELSE IF Contains(TP, ms[i].path) THEN ScanFrom(ms, i + 1, i, pm)
    ELSE IF Contains(PRJ, ms[i].path) THEN ScanFrom(ms, i + 1, tp, i)
    ELSE ScanFrom(ms, i + 1, tp, pm)

RECURSIVE ScanFirstFrom(_, _, _, _)
\* the loop as it would be if a role, once bound, were kept
ScanFirstFrom(ms, i, tp, pm) ==
    IF i > Len(ms) THEN [third_party_model |-> tp, project_model |-> pm]
    ELSE IF Contains(TP, ms[i].path)
         THEN ScanFirstFrom(ms, i + 1, IF tp = NoModel THEN i ELSE tp, pm)
    ELSE IF Contains(PRJ, ms[i].path)
         THEN ScanFirstFrom(ms, i + 1, tp, IF pm = NoModel THEN i ELSE pm)
    ELSE ScanFirstFrom(ms, i + 1, tp, pm)

FindModelsFirst(ms) == ScanFirstFrom(ms, 1, NoModel, NoModel)

RECURSIVE ScanAnyFrom(_, _, _, _)
\* the loop as it would be if the elif branch bound the third-party role too
ScanAnyFrom(ms, i, tp, pm) ==
    IF i > Len(ms) THEN [third_party_model |-> tp, project_model |-> pm]
    ELSE IF Contains(TP, ms[i].path) THEN ScanAnyFrom(ms, i + 1, i, pm)
    ELSE IF Contains(PRJ, ms[i].path) THEN ScanAnyFrom(ms, i + 1, i, pm)
    ELSE ScanAnyFrom(ms, i + 1, tp, pm)

FindModelsAny(ms) == ScanAnyFrom(ms, 1, NoModel, NoModel)

\* the two roles after the loop; NoModel stands for None
FindModels(ms) == ScanFrom(ms, 1, NoModel, NoModel)

\* a reference to the source's Coordinate instead of a new object
ShareCoordinate(h, a) == [heap |-> h, addr |-> a]

\* Coordinate(X=src.X, Y=src.Y, Z=src.Z): a new object with the source's components
NewCoordinate(h, a) ==
    [heap |-> Append(h, Vec(h[a].X, h[a].Y, h[a].Z)), addr |-> Len(h) + 1]

\* the create branch: a new Model appended to footprint.models
CreateProjectModel(ms, h, t) ==
    LET c1 == NewCoordinate(h, ms[t].pos)
        c2 == NewCoordinate(c1.heap, ms[t].scale)
        c3 == NewCoordinate(c2.heap, ms[t].rotate)
        new_path == NewPath(ms[t].path)
    IN [models |-> Append(ms, [path |-> new_path,
                               pos |-> c1.addr, scale |-> c2.addr, rotate |-> c3.addr,
                               hide |-> ms[t].hide, opacity |-> ms[t].opacity]),
        heap |-> c3.heap,
        ret |-> TRUE,
        out |-> <<"Added project model">>]

\* one `if project_model.f != third_party_model.f` block for a Coordinate field
SyncCoordinate(st, t, p, f, msg) ==
    IF st.heap[st.models[p][f]] # st.heap[st.models[t][f]]
    THEN LET c == NewCoordinate(st.heap, st.models[t][f])
         IN [models |-> [st.models EXCEPT ![p][f] = c.addr],
             heap |-> c.heap, ret |-> TRUE, out |-> Append(st.out, msg)]
    ELSE st

\* one `if project_model.f != third_party_model.f` block for hide or opacity
SyncScalar(st, t, p, f, msg) ==
    IF st.models[p][f] # st.models[t][f]
    THEN [models |-> [st.models EXCEPT ![p][f] = st.models[t][f]],
          heap |-> st.heap, ret |-> TRUE, out |-> Append(st.out, msg)]
    ELSE st

\* the update branch with the rotation block left out
UpdateProjectModelNoRotate(ms, h, t, p) ==
    LET s0 == [models |-> ms, heap |-> h, ret |-> FALSE, out |-> <<>>]
        s1 == SyncCoordinate(s0, t, p, "pos", "Updated Coordinate")
        s2 == SyncCoordinate(s1, t, p, "scale", "Updated scale")
        s4 == SyncScalar(s2, t, p, "hide", "Updated visibility")
    IN SyncScalar(s4, t, p, "opacity", "Updated opacity")

\* the update branch: the five blocks in order, modified starting False
UpdateProjectModel(ms, h, t, p) ==
    LET s0 == [models |-> ms, heap |-> h, ret |-> FALSE, out |-> <<>>]
        s1 == SyncCoordinate(s0, t, p, "pos", "Updated Coordinate")
        s2 == SyncCoordinate(s1, t, p, "scale", "Updated scale")
        s3 == SyncCoordinate(s2, t, p, "rotate", "Updated rotation")
        s4 == SyncScalar(s3, t, p, "hide", "Updated visibility")
    IN SyncScalar(s4, t, p, "opacity", "Updated opacity")

sync_models(ms, h) ==
    IF Len(ms) = 0
    THEN [models |-> ms, heap |-> h, ret |-> FALSE, out |-> <<"No model sections found in file">>]
    ELSE LET found == FindModels(ms)
             t == found.third_party_model
             p == found.project_model
         IN IF t = NoModel
            THEN [models |-> ms, heap |-> h, ret |-> FALSE,
                  out |-> <<"No KICAD_3RD_PARTY model found in file">>]
            ELSE IF p = NoModel
            THEN CreateProjectModel(ms, h, t)
            ELSE UpdateProjectModel(ms, h, t, p)

----------------------------------------------------------------------------
(* Reconciling one footprint in memory, any number of times *)

Docs == UNION {[1..n -> SampleDocModels] : n \in 0..MaxModels}

IdleRun ==
    /\ disk = <<>> /\ disk0 = <<>> /\ readable = <<>> /\ dry_run = FALSE
    /\ footprint_files = <<>> /\ idx = 0 /\ modified_files = 0
    /\ log = <<>> /\ exit_code = -1 /\ pc = "idle"

Init ==
    /\ \E doc \in Docs :
          /\ models = from_file(doc).models
          /\ heap = from_file(doc).heap
    /\ models0 = models
    /\ heap0 = heap
    /\ ret = FALSE
    /\ out = <<>>
    /\ calls = 0
    /\ IdleRun

\* was_modified = sync_models(footprint)
Sync ==
    /\ calls < MaxCalls
    /\ LET r == sync_models(models, heap)
       IN /\ models' = r.models
          /\ heap' = r.heap
          /\ ret' = r.ret
          /\ out' = r.out
    /\ models0' = models
    /\ heap0' = heap
    /\ calls' = calls + 1
    /\ UNCHANGED runVars

Next == Sync

Spec == Init /\ [][Next]_vars

----------------------------------------------------------------------------
(* The batch pipeline: find_footprint_files, process_footprint_file, main *)

Dirs == {"root", "sub"}
Suffixes == {".kicad_mod", ".txt"}

\* documents a file may hold: nothing to do, create, update, already in sync
SampleRunDocs ==
    LET tp == <<TP, SEP, "lib", SEP, "part.step">>
        pl == <<PRJ, SEP, "3d-models", SEP, "part.step">>
        moved == [DefaultAttrs EXCEPT !.pos = Vec(5, 2, 3)]
    IN { <<DocModel(<<"${KISYS3DMOD}", SEP, "part.step">>, DefaultAttrs)>>,
         <<DocModel(tp, moved)>>,
         <<DocModel(tp, moved), DocModel(pl, DefaultAttrs)>>,
         <<DocModel(tp, moved), DocModel(pl, moved)>> }

\* what a file holds: a document from_file can parse, or text it raises on
Parsable(doc) == [ok |-> TRUE, doc |-> doc]
Malformed == [ok |-> FALSE, doc |-> <<>>]
FileContents == {Parsable(d) : d \in SampleRunDocs} \cup {Malformed}

FileIds == 1..MaxFiles

RECURSIVE ListDir(_, _, _)
\* the names os.scandir yields for directory d, from file id i on
ListDir(dk, d, i) ==
    IF i > MaxFiles THEN <<>>
    ELSE IF dk[i].dir = d THEN <<i>> \o ListDir(dk, d, i + 1)
    ELSE ListDir(dk, d, i + 1)

\* os.listdir of the top directory only
walk_top_only(dk, rd) ==
    IF rd["root"] THEN <<ListDir(dk, "root", 1)>> ELSE <<>>

\* os.walk(directory), top down, onerror=None: a directory that cannot be
\* scanned yields nothing and is not descended into, and no error is raised
walk(dk, rd) ==
    IF ~rd["root"] THEN <<>>
    ELSE <<ListDir(dk, "root", 1)>>
         \o (IF rd["sub"] THEN <<ListDir(dk, "sub", 1)>> ELSE <<>>)

RECURSIVE Flatten(_)
Flatten(ss) == IF ss = <<>> THEN <<>> ELSE Head(ss) \o Flatten(Tail(ss))

find_footprint_files(dk, rd) ==
    SelectSeq(Flatten(walk(dk, rd)), LAMBDA f : dk[f].suffix = ".kicad_mod")

\* process_footprint_file writing the file whatever dry_run says
process_footprint_file_always_saves(content, dry, save_ok) ==
    IF ~content.ok
    THEN [content |-> content, ret |-> FALSE, line |-> "Error processing file"]
    ELSE LET footprint == from_file(content.doc)
             synced == sync_models(footprint.models, footprint.heap)
         IN IF synced.ret
            THEN IF save_ok
                 THEN [content |-> Parsable(to_file(synced.models, synced.heap)),
                       ret |-> TRUE, line |-> "File modified successfully"]
                 ELSE [content |-> content, ret |-> FALSE,
                       line |-> "Error processing file"]
            ELSE [content |-> content, ret |-> FALSE, line |-> "No changes needed"]

\* process_footprint_file whose except branch returns True
process_footprint_file_counts_errors(content, dry, save_ok) ==
    IF ~content.ok
    THEN [content |-> content, ret |-> TRUE, line |-> "Error processing file"]
    ELSE LET footprint == from_file(content.doc)
             synced == sync_models(footprint.models, footprint.heap)
         IN IF synced.ret
            THEN IF ~dry
                 THEN IF save_ok
                      THEN [content |-> Parsable(to_file(synced.models, synced.heap)),
                            ret |-> TRUE, line |-> "File modified successfully"]
                      ELSE [content |-> content, ret |-> TRUE,
                            line |-> "Error processing file"]
                 ELSE [content |-> content, ret |-> TRUE, line |-> "Would modify file"]
            ELSE [content |-> content, ret |-> FALSE, line |-> "No changes needed"]

\* process_footprint_file(filepath, dry_run) on a file holding `content`:
\* the content the file holds afterwards, the value returned, the line printed.
\* from_file raises on a malformed document, to_file raises when save_ok is
\* false; either way the except branch prints the error and returns False.
process_footprint_file(content, dry, save_ok) ==
    IF ~content.ok
    THEN [content |-> content, ret |-> FALSE, line |-> "Error processing file"]
    ELSE LET footprint == from_file(content.doc)
             synced == sync_models(footprint.models, footprint.heap)
         IN IF synced.ret
            THEN IF ~dry
                 THEN IF save_ok
                      THEN [content |-> Parsable(to_file(synced.models, synced.heap)),
                            ret |-> TRUE, line |-> "File modified successfully"]
                      ELSE [content |-> content, ret |-> FALSE,
                            line |-> "Error processing file"]
                 ELSE [content |-> content, ret |-> TRUE, line |-> "Would modify file"]
            ELSE [content |-> content, ret |-> FALSE, line |-> "No changes needed"]

\* the status that ignores --dry-run
ExitStatusAnyMode(modified, dry) == IF modified > 0 THEN 1 ELSE 0

\* `if modified_files > 0 and not args.dry_run: exit(1)`, else exit(0)
ExitStatus(modified, dry) == IF modified > 0 /\ ~dry THEN 1 ELSE 0

IdleSync ==
    /\ models = <<>> /\ heap = <<>> /\ models0 = <<>> /\ heap0 = <<>>
    /\ ret = FALSE /\ out = <<>> /\ calls = 0

InitRun ==
    /\ disk \in [FileIds -> [dir : Dirs, suffix : Suffixes,
                             content : FileContents]]
    /\ disk0 = disk
    /\ readable \in [Dirs -> BOOLEAN]
    /\ dry_run \in BOOLEAN
    /\ footprint_files = <<>>
    /\ idx = 0
    /\ modified_files = 0
    /\ log = <<>>
    /\ exit_code = -1
    /\ pc = "start"
    /\ IdleSync

\* main up to the loop: discovery, and the early return when nothing was found
Discover ==
    /\ pc = "start"
    /\ footprint_files' = find_footprint_files(disk, readable)
    /\ IF footprint_files' = <<>>
       THEN /\ pc' = "done"
            /\ exit_code' = 0
            /\ idx' = idx
       ELSE /\ pc' = "loop"
            /\ exit_code' = exit_code
            /\ idx' = 1
    /\ modified_files' = 0
    /\ UNCHANGED <<disk, disk0, readable, dry_run, log>>
    /\ UNCHANGED syncVars

\* one iteration of main's loop
ProcessFile ==
    /\ pc = "loop"
    /\ idx <= Len(footprint_files)
    /\ \E save_ok \in BOOLEAN :
          LET f == footprint_files[idx]
              r == process_footprint_file(disk[f].content, dry_run, save_ok)
          IN /\ disk' = [disk EXCEPT ![f].content = r.content]
             /\ modified_files' = IF r.ret THEN modified_files + 1 ELSE modified_files
             /\ log' = Append(log, r.line)
    /\ idx' = idx + 1
    /\ UNCHANGED <<disk0, readable, dry_run, footprint_files, exit_code, pc>>
    /\ UNCHANGED syncVars

\* after the loop: the summary and the exit status
Summary ==
    /\ pc = "loop"
    /\ idx > Len(footprint_files)
    /\ exit_code' = ExitStatus(modified_files, dry_run)
    /\ pc' = "done"
    /\ UNCHANGED <<disk, disk0, readable, dry_run, footprint_files, idx,
                   modified_files, log>>
    /\ UNCHANGED syncVars

NextRun == Discover \/ ProcessFile \/ Summary

SpecRun == InitRun /\ [][NextRun]_vars

----------------------------------------------------------------------------
(* Properties of sync_models *)

\* the five synchronized fields of record i, vectors by value
Attrs(ms, h, i) ==
    [pos |-> h[ms[i].pos], scale |-> h[ms[i].scale], rotate |-> h[ms[i].rotate],
     hide |-> ms[i].hide, opacity |-> ms[i].opacity]

\* record i is after the call what it was before it, references and values
Untouched(i) ==
    /\ models[i] = models0[i]
    /\ Attrs(models, heap, i) = Attrs(models0, heap0, i)

HasThirdPartyToken(m) == Contains(TP, m.path)
HasProjectToken(m) == Contains(PRJ, m.path)
IsProjectOnly(m) == Contains(PRJ, m.path) /\ ~Contains(TP, m.path)

FirstWhere(ms, P(_)) ==
    IF \E i \in 1..Len(ms) : P(ms[i])
    THEN CHOOSE i \in 1..Len(ms) : P(ms[i]) /\ \A j \in 1..(i - 1) : ~P(ms[j])
    ELSE NoModel

LastWhere(ms, P(_)) ==
    IF \E i \in 1..Len(ms) : P(ms[i])
    THEN CHOOSE i \in 1..Len(ms) : P(ms[i]) /\ \A j \in (i + 1)..Len(ms) : ~P(ms[j])
    ELSE NoModel

\* the call read record t as its source and wrote record p, or a new record
\* when p is NoModel, and nothing else
UsedAs(t, p) ==
    IF p = NoModel
    THEN /\ Len(models) = Len(models0) + 1
         /\ Attrs(models, heap, Len(models)) = Attrs(models0, heap0, t)
         /\ \A i \in 1..Len(models0) : Untouched(i)
    ELSE /\ Len(models) = Len(models0)
         /\ Attrs(models, heap, p) = Attrs(models0, heap0, t)
         /\ \A i \in 1..Len(models0) : i # p => Untouched(i)

\* the roles as the code binds them, stated without the loop
SourceIndex == LastWhere(models0, HasThirdPartyToken)
TargetIndex == LastWhere(models0, IsProjectOnly)

\* C1: a second sync_models call on the same footprint returns False and leaves
\* the model collection as it was, in length and contents.
C1_Idempotence ==
    calls >= 2 =>
        /\ ret = FALSE
        /\ Len(models) = Len(models0)
        /\ to_file(models, heap) = to_file(models0, heap0)

\* C2 as claimed: the first record with the third-party token is the source and
\* the first record with the project token is the target; later ones are ignored.
\* Stated for footprints in which no path carries both tokens, where the two
\* roles of the claim cannot fall on one record.
C2_FirstMatchWins ==
    (calls >= 1 /\ \A i \in 1..Len(models0) :
                      ~(HasThirdPartyToken(models0[i]) /\ HasProjectToken(models0[i]))) =>
        LET t == FirstWhere(models0, HasThirdPartyToken)
            p == FirstWhere(models0, HasProjectToken)
        IN t # NoModel => UsedAs(t, p)

\* C2 amended: the last record with the third-party token is the source and the
\* last record with the project token and without the third-party token is the
\* target; earlier ones are neither read nor written.
C2_LastMatchWins ==
    calls >= 1 => (SourceIndex # NoModel => UsedAs(SourceIndex, TargetIndex))

\* two third-party records that differ, and a project-local record after them
C2_Witness ==
    /\ calls >= 1
    /\ Len(models0) = 3
    /\ HasThirdPartyToken(models0[1]) /\ HasThirdPartyToken(models0[2])
    /\ IsProjectOnly(models0[3])
    /\ Attrs(models0, heap0, 1) # Attrs(models0, heap0, 2)
    /\ Attrs(models0, heap0, 3) = Attrs(models0, heap0, 1)
    /\ ret = TRUE

\* b is the component of path after its last separator
IsLastComponent(b, path) ==
    /\ Len(b) <= Len(path)
    /\ b = SubSeq(path, Len(path) - Len(b) + 1, Len(path))
    /\ ~Contains(SEP, b)
    /\ Len(b) < Len(path) => path[Len(path) - Len(b)] = SEP

\* C3: with a third-party record and no project-local record, the call returns
\* True and appends one record: "${KIPRJMOD}/3d-models/" and the third-party
\* path's last component, the five fields equal by value; the records that were
\* there keep their order and contents.
C3_Create ==
    (calls >= 1 /\ SourceIndex # NoModel /\ TargetIndex = NoModel) =>
        /\ ret = TRUE
        /\ Len(models) = Len(models0) + 1
        /\ \E b \in {SubSeq(models0[SourceIndex].path, k, Len(models0[SourceIndex].path)) :
                        k \in 1..(Len(models0[SourceIndex].path) + 1)} :
              /\ IsLastComponent(b, models0[SourceIndex].path)
              /\ models[Len(models)].path = <<PRJ, SEP, "3d-models", SEP>> \o b
        /\ Attrs(models, heap, Len(models)) = Attrs(models0, heap0, SourceIndex)
        /\ \A i \in 1..Len(models0) : Untouched(i)

\* a created record for ${KICAD_3RD_PARTY}/lib/part.step with a non-default position
C3_Witness ==
    /\ calls = 1
    /\ Len(models0) = 2
    /\ models0[2].path = <<TP, SEP, "lib", SEP, "part.step">>
    /\ ~HasProjectToken(models0[1]) /\ ~HasThirdPartyToken(models0[1])
    /\ heap0[models0[2].pos] = Vec(5, 2, 3)
    /\ Len(models) = 3
    /\ models[3].path = <<PRJ, SEP, "3d-models", SEP, "part.step">>
    /\ ret = TRUE

SyncFields == {"pos", "scale", "rotate", "hide", "opacity"}

FieldOfLine(line) ==
    CASE line = "Updated Coordinate" -> "pos"
      [] line = "Updated scale" -> "scale"
      [] line = "Updated rotation" -> "rotate"
      [] line = "Updated visibility" -> "hide"
      [] line = "Updated opacity" -> "opacity"
      [] OTHER -> "none"

\* the fields the call reported as overwritten
ChangedFields == {FieldOfLine(out[k]) : k \in 1..Len(out)}

\* C4: with both records found, the overwritten fields are exactly those that
\* differed, afterwards all five equal the third-party record's, the length is
\* unchanged, and the call returns True exactly when some field was overwritten.
C4_Update ==
    (calls >= 1 /\ SourceIndex # NoModel /\ TargetIndex # NoModel) =>
        LET t == SourceIndex
            p == TargetIndex
            differed == {f \in SyncFields :
                            Attrs(models0, heap0, p)[f] # Attrs(models0, heap0, t)[f]}
        IN /\ ChangedFields = differed
           /\ \A f \in {"pos", "scale", "rotate"} :
                 (models[p][f] # models0[p][f]) <=> (f \in differed)
           /\ Attrs(models, heap, p) = Attrs(models0, heap0, t)
           /\ Len(models) = Len(models0)
           /\ ret = (differed # {})

\* an update in which rotation and one more field differed
C4_Witness ==
    /\ calls >= 1
    /\ SourceIndex # NoModel /\ TargetIndex # NoModel
    /\ ChangedFields = {"rotate", "hide"}
    /\ ret = TRUE

VectorRefs(ms) ==
    [k \in 1..(3 * Len(ms)) |->
        LET i == (k + 2) \div 3
        IN CASE k % 3 = 1 -> ms[i].pos
             [] k % 3 = 2 -> ms[i].scale
             [] OTHER -> ms[i].rotate]

\* C5: after a call the record used as source has the path, vectors, hide and
\* opacity it had before, and none of its Coordinate objects is referenced from
\* another field or record, so that no write through another record reaches it.
C5_SourceNotMutated ==
    (calls >= 1 /\ SourceIndex # NoModel) =>
        LET t == SourceIndex
            refs == VectorRefs(models)
        IN /\ models[t] = models0[t]
           /\ Attrs(models, heap, t) = Attrs(models0, heap0, t)
           /\ \A k \in 1..Len(heap0) : heap[k] = heap0[k]
           /\ \A j, k \in 1..Len(refs) :
                 (refs[j] = refs[k] /\ j # k) => (j \notin (3 * t - 2)..(3 * t))

\* an update that overwrote a vector of the project-local record
C5_Witness ==
    /\ calls >= 1
    /\ SourceIndex # NoModel /\ TargetIndex # NoModel
    /\ "pos" \in ChangedFields
    /\ heap[models[TargetIndex].pos] = heap[models[SourceIndex].pos]

\* C6: with no record carrying the third-party token, the call returns False
\* and the collection is unchanged in length and in every record.
C6_NoThirdParty ==
    (calls >= 1 /\ \A i \in 1..Len(models0) : ~HasThirdPartyToken(models0[i])) =>
        /\ ret = FALSE
        /\ models = models0
        /\ to_file(models, heap) = to_file(models0, heap0)

\* a project-local record and an unrelated one, no third-party record
C6_Witness ==
    /\ calls >= 1
    /\ Len(models0) = 2
    /\ IsProjectOnly(models0[1])
    /\ ~HasProjectToken(models0[2]) /\ ~HasThirdPartyToken(models0[2])
    /\ ret = FALSE

----------------------------------------------------------------------------
(* Properties of the pipeline *)

\* the files process_footprint_file has returned from, by position in the list
Processed == 1..Len(log)
FileAt(k) == footprint_files[k]

\* what sync_models returns on the document file f held when the run started
Outcome(f) ==
    LET fp == from_file(disk0[f].content.doc)
    IN sync_models(fp.models, fp.heap).ret

\* the document of file f after reconciliation, as to_file writes it
Reconciled(f) ==
    LET fp == from_file(disk0[f].content.doc)
        r == sync_models(fp.models, fp.heap)
    IN Parsable(to_file(r.models, r.heap))

Counted(k) == log[k] \in {"File modified successfully", "Would modify file"}
Failed(k) == log[k] = "Error processing file"

\* C7: a dry run never changes a file and still counts every file whose
\* outcome is created or updated; without dry run such a file is rewritten in
\* place (unless to_file raised), no other file is touched; a file whose
\* outcome is unmodified is neither written nor counted in either mode.
C7_DryRun ==
    /\ dry_run => disk = disk0
    /\ \A k \in Processed :
          LET f == FileAt(k)
          IN disk0[f].content.ok =>
                /\ (dry_run /\ Outcome(f)) => log[k] = "Would modify file"
                /\ (~dry_run /\ Outcome(f) /\ ~Failed(k)) =>
                      /\ log[k] = "File modified successfully"
                      /\ disk[f] = [disk0[f] EXCEPT !.content = Reconciled(f)]
                /\ ~Outcome(f) =>
                      /\ log[k] = "No changes needed"
                      /\ disk[f] = disk0[f]
    /\ modified_files = Cardinality({k \in Processed : Counted(k)})
    /\ \A f \in FileIds :
          (\A k \in Processed : FileAt(k) # f) => disk[f] = disk0[f]

\* a finished dry run over a file to update and a file to create
C7_Witness ==
    /\ pc = "done"
    /\ dry_run
    /\ Len(log) = 2
    /\ Len(disk0[FileAt(1)].content.doc) = 2
    /\ Len(disk0[FileAt(2)].content.doc) = 1
    /\ modified_files = 2
    /\ disk = disk0

\* C8: a load or save failure never stops the batch; the failing file is in
\* the total and not in the modified count, and every other file is
\* reconciled, persisted and counted as its own content decides.
C8_FailureIsolation ==
    /\ (pc = "done" /\ footprint_files # <<>>) => Len(log) = Len(footprint_files)
    /\ \A k \in Processed :
          LET f == FileAt(k)
          IN /\ ~disk0[f].content.ok => Failed(k)
             /\ Failed(k) => (~disk0[f].content.ok \/ (~dry_run /\ Outcome(f)))
             /\ ~Failed(k) =>
                   disk[f].content =
                      IF Outcome(f) /\ ~dry_run THEN Reconciled(f) ELSE disk0[f].content
    /\ modified_files =
          Cardinality({k \in Processed : ~Failed(k) /\ Outcome(FileAt(k))})

\* a malformed file first, then a file to update that is saved: 2 files, 1 modified
C8_Witness ==
    /\ pc = "done"
    /\ ~dry_run
    /\ Len(footprint_files) = 2
    /\ ~disk0[FileAt(1)].content.ok
    /\ Len(disk0[FileAt(2)].content.doc) = 2
    /\ disk[FileAt(2)].content = Reconciled(FileAt(2))
    /\ disk[FileAt(2)] # disk0[FileAt(2)]
    /\ modified_files = 1

\* C9: the process ends with status 1 exactly when dry run is off and some
\* file was counted as modified, and with status 0 otherwise.
C9_ExitStatus ==
    pc = "done" =>
        /\ exit_code \in {0, 1}
        /\ exit_code = 1 <=> (~dry_run /\ \E k \in Processed : Counted(k))

\* a run that wrote one file, failed on the other and ended with status 1
C9_Witness ==
    /\ pc = "done"
    /\ exit_code = 1
    /\ Len(log) = 2
    /\ \E k \in Processed : Failed(k)

\* C10 as claimed: discovery does not return normally, and the run neither
\* carries on nor ends normally, when a directory cannot be read.
C10_DiscoveryErrorAborts ==
    pc \in {"loop", "done"} => \A d \in Dirs : readable[d]

\* the .kicad_mod files of the directories os.walk can scan
Discoverable ==
    {f \in FileIds : /\ disk0[f].suffix = ".kicad_mod"
                     /\ readable["root"]
                     /\ (disk0[f].dir = "root" \/ readable["sub"])}

\* C10 amended: a directory that cannot be read is skipped without an error;
\* discovery returns the footprint files of the readable directories, each
\* once, and the run carries on with them; with an unreadable root it ends as
\* a run that found no file, with status 0.
C10_UnreadableSkipped ==
    pc # "start" =>
        /\ {footprint_files[k] : k \in 1..Len(footprint_files)} = Discoverable
        /\ Len(footprint_files) = Cardinality(Discoverable)
        /\ ~readable["root"] => (pc = "done" /\ exit_code = 0 /\ log = <<>>)

\* a finished run that processed the root's file and skipped the unreadable
\* subdirectory, which holds a footprint file
C10_Witness ==
    /\ pc = "done"
    /\ readable["root"] /\ ~readable["sub"]
    /\ \E f \in FileIds : disk0[f].dir = "sub" /\ disk0[f].suffix = ".kicad_mod"
    /\ Len(footprint_files) = 1
    /\ Len(log) = 1

====
